---- MODULE Spec2Model ----
(***************************************************************************)
(* HalgoraeDO: the task service of the Express/Sequelize backend           *)
(* (server/src/services/task.js) and the user module of the web client's   *)
(* store.                                                                  *)
(*                                                                         *)
(* Optional values (a JavaScript value that may be undefined, a row that   *)
(* findByPk may not find, a column that may be NULL) are sets with at most *)
(* one element: {} is undefined / null, {v} is v.                          *)
(***************************************************************************)
EXTENDS Integers, FiniteSets, Sequences, TLC

\* ------------------------------------------------------------------ bounds

\* Number of task rows the auto-increment key hands out.
MaxTasks == 2
\* Number of create requests the server handles at the same time.
MaxRequests == 2

\* ------------------------------------------------- the rows the service reads

\* The user ids that call the service.
Users == {1, 2}

\* models.project: rows by primary key.  The service never writes this table.
\* The creator of project 3 is a user who makes no call here.
projects == << [creatorId |-> 1], [creatorId |-> 1], [creatorId |-> 3] >>

\* models.section: rows by primary key.  The service never writes this table.
\* Project 1 has no section.
sections == << [projectId |-> 2], [projectId |-> 3] >>

\* models.label: the primary keys of the label rows.
Labels == {1}

\* Primary keys a caller may pass; 0 is the key of no row.
ProjectIds == 0..Len(projects)
SectionIds == 0..Len(sections)
LabelIds == {0} \cup Labels
TaskIds == 1..MaxTasks

\* The requests that may be in flight together.
Requests == 1..MaxRequests

\* ------------------------------------------------------------ error codes

NOT_FOUND_ERROR == 404
FORBIDDEN_ERROR == 403
BAD_REQUEST_ERROR == 400
\* error.status of an error that was thrown without one (a SyntaxError of
\* JSON.parse, a TypeError, a database error): undefined.
NoStatus == 0

\* ------------------------------------------------------------------ state

VARIABLES
    tasks,      \* the task table: primary key -> row (with its label set)
    nextId,     \* the next auto-increment primary key of the task table
    result,     \* the last service call and how it ended
    pending,    \* request -> the create call that is between its read of the
                \* section and its insert, if any
    user,       \* client store: state.user
    pathname,   \* client: location.pathname
    token,      \* client: localStorage holds "token"
    cres        \* client: the last store action and how it ended

vars == <<tasks, nextId, result, pending, user, pathname, token, cres>>
server == <<tasks, nextId, result, pending>>
client == <<user, pathname, token, cres>>

\* ---------------------------------------------------------------- helpers

\* Model.findByPk: the row with that key, or null.
findByPk(table, id) == IF id \in DOMAIN table THEN {table[id]} ELSE {}

\* @services/authorization-check: the owning chain project / section->project /
\* task->project has creatorId = userId.
isProjectOwner(id, userId) ==
    /\ id \in DOMAIN projects
    /\ projects[id].creatorId = userId

isSectionOwner(id, userId) ==
    /\ id \in DOMAIN sections
    /\ isProjectOwner(sections[id].projectId, userId)

isTaskOwner(ts, id, userId) ==
    /\ id \in DOMAIN ts
    /\ isProjectOwner(ts[id].projectId, userId)

\* section.toJSON().tasks: the positions of the rows of the section.
siblingPositions(ts, sectionId) ==
    {ts[i].position : i \in {j \in DOMAIN ts : ts[j].sectionId = sectionId}}

\* tasks.reduce((max, task) => Math.max(max, task.position), 0)
maxPosition(ts, sectionId) ==
    LET P == siblingPositions(ts, sectionId) \cup {0}
    IN  CHOOSE m \in P : \A p \in P : p <= m

\* A labelIdList is a string.  text "" is the empty string, "json" is the JSON
\* text of an array of the ids, "bad" is a text that is no JSON.
LabelTexts ==
    {[text |-> "", ids |-> {}], [text |-> "bad", ids |-> {}], [text |-> "json", ids |-> {}]}
        \cup {[text |-> "json", ids |-> {i}] : i \in LabelIds}

\* if (labelIdList): undefined and the empty string are falsy.
truthy(labelIdList) == \E l \in labelIdList : l.text # ""

\* JSON.parse(labelIdList): the array, or {} when it throws a SyntaxError.
JSONparse(l) == IF l.text = "json" THEN {l.ids} ELSE {}

\* task.setLabels(JSON.parse(labelIdList)): the new label set of the task, or
\* {} when a step throws: the text is no JSON, or an id is the key of no label
\* row (the foreign key of the join table).
setLabels(labelIdList) ==
    {ids \in UNION {JSONparse(l) : l \in labelIdList} : ids \subseteq Labels}

\* How a call ended.
Throw(status, ts, nid) ==
    [threw |-> TRUE, status |-> status, ret |-> FALSE, count |-> 0,
     value |-> {}, tasks |-> ts, nextId |-> nid]

Return(ret, count, value, ts, nid) ==
    [threw |-> FALSE, status |-> NoStatus, ret |-> ret, count |-> count,
     value |-> value, tasks |-> ts, nextId |-> nid]

\* ------------------------------------------------------- the task service

\* retrieveById({ id, userId })
retrieveById(ts, nid, id, userId) ==
    IF findByPk(ts, id) = {}
    THEN {Throw(NOT_FOUND_ERROR, ts, nid)}
    ELSE IF ~isTaskOwner(ts, id, userId)
    THEN {Throw(FORBIDDEN_ERROR, ts, nid)}
    ELSE {Return(TRUE, 0, findByPk(ts, id), ts, nid)}

\* The status of the error of create's section-ownership branch.  The branch
\* calls errorMessage.FORBIDDEN_ERROR('section'), which the other branches use
\* as a plain value: when it is a string the call itself throws a TypeError
\* (no status); when it is callable the error gets status NOT_FOUND_ERROR.
SectionForbiddenStatus == {NOT_FOUND_ERROR, NoStatus}

\* create, before its transaction: the status of the error the project checks
\* throw, or {} when they pass.
projectChecks(projectId, userId) ==
    IF findByPk(projects, projectId) = {}
    THEN {NOT_FOUND_ERROR}
    ELSE IF ~isProjectOwner(projectId, userId)
    THEN {FORBIDDEN_ERROR}
    ELSE {}

\* sectionChecks without the comparison of section.projectId with projectId.
sectionChecks_noRelationCheck(projectId, sectionId, userId) ==
    IF findByPk(sections, sectionId) = {}
    THEN {NOT_FOUND_ERROR}
    ELSE IF ~isSectionOwner(sectionId, userId)
    THEN SectionForbiddenStatus
    ELSE {}

\* create, first part of the transaction callback: the statuses the section
\* checks may throw, or {} when they pass.
sectionChecks(projectId, sectionId, userId) ==
    IF findByPk(sections, sectionId) = {}
    THEN {NOT_FOUND_ERROR}
    ELSE IF ~isSectionOwner(sectionId, userId)
    THEN SectionForbiddenStatus
    ELSE IF sections[sectionId].projectId # projectId
    THEN {BAD_REQUEST_ERROR}
    ELSE {}

\* { projectId, sectionId, dueDate, position: maxPosition + 1, ...rest }: a
\* position in rest comes later in the literal and wins.  Of the plain columns
\* (dueDate and whatever else rest carries) the row keeps position.
newRow(max, projectId, sectionId, rest) ==
    [projectId |-> projectId,
     sectionId |-> sectionId,
     position |-> IF rest.position = {}
                  THEN max + 1
                  ELSE CHOOSE p \in rest.position : TRUE,
     labels |-> {}]

\* models.task.create(row, { transaction: t })
insert(ts, nid, row) ==
    [i \in DOMAIN ts \cup {nid} |-> IF i = nid THEN row ELSE ts[i]]

\* createInsert with the insert not given transaction t: the row stays when the
\* label association throws.
createInsert_outsideT(ts, nid, max, projectId, sectionId, rest, labelIdList) ==
    LET inserted == insert(ts, nid, newRow(max, projectId, sectionId, rest))
    IN  IF truthy(labelIdList)
        THEN IF setLabels(labelIdList) = {}
             THEN {Throw(NoStatus, inserted, nid + 1)}
             ELSE {Return(TRUE, 0, {}, [inserted EXCEPT ![nid].labels = ids], nid + 1)
                      : ids \in setLabels(labelIdList)}
        ELSE {Return(TRUE, 0, {}, inserted, nid + 1)}

\* create, second part of the transaction callback, given the maxPosition that
\* was computed from the section as it was read: the insert and the label
\* association run in transaction t, and an error thrown by the callback rolls
\* t back.  The auto-increment key that the insert used is not handed out again.
createInsert(ts, nid, max, projectId, sectionId, rest, labelIdList) ==
    LET inserted == insert(ts, nid, newRow(max, projectId, sectionId, rest))
    IN  IF truthy(labelIdList)
        THEN IF setLabels(labelIdList) = {}
             THEN {Throw(NoStatus, ts, nid + 1)}
             ELSE {Return(TRUE, 0, {}, [inserted EXCEPT ![nid].labels = ids], nid + 1)
                      : ids \in setLabels(labelIdList)}
        ELSE {Return(TRUE, 0, {}, inserted, nid + 1)}

\* The callback of create's sequelize.transaction, run without interruption.
createTransaction(ts, nid, projectId, sectionId, userId, rest, labelIdList) ==
    IF sectionChecks(projectId, sectionId, userId) # {}
    THEN {Throw(s, ts, nid) : s \in sectionChecks(projectId, sectionId, userId)}
    ELSE createInsert(ts, nid, maxPosition(ts, sectionId), projectId, sectionId,
                      rest, labelIdList)

\* create({ projectId, sectionId, userId, ...taskData })
create(ts, nid, projectId, sectionId, userId, rest, labelIdList) ==
    IF projectChecks(projectId, userId) # {}
    THEN {Throw(s, ts, nid) : s \in projectChecks(projectId, userId)}
    ELSE createTransaction(ts, nid, projectId, sectionId, userId, rest, labelIdList)

\* task.update({ dueDate, ...rest }): the fields that are not undefined are
\* written, the others keep their values.  Of the columns a caller may send,
\* the row keeps position (a plain column, as dueDate is) and sectionId.
merge(row, rest) ==
    [row EXCEPT !.position = IF rest.position = {} THEN @
                             ELSE CHOOSE p \in rest.position : TRUE,
                !.sectionId = IF rest.sectionId = {} THEN @
                              ELSE CHOOSE s \in rest.sectionId : TRUE]

\* What task.update(...) of update leaves in the table.  The call is given no
\* transaction, so its UPDATE runs outside t and is committed when the call
\* returns; a sectionId that is the key of no section row breaks the foreign
\* key and the call throws.
fieldUpdate(ts, id, rest) ==
    IF rest.sectionId \subseteq DOMAIN sections
    THEN {[ts EXCEPT ![id] = merge(@, rest)]}
    ELSE {}

\* updateTransaction with the ownership check moved after task.update.
updateTransaction_ownerCheckLate(ts, nid, id, userId, rest, labelIdList) ==
    IF findByPk(ts, id) = {}
    THEN {Throw(NOT_FOUND_ERROR, ts, nid)}
    ELSE IF fieldUpdate(ts, id, rest) = {}
    THEN {Throw(NoStatus, ts, nid)}
    ELSE LET merged == CHOOSE m \in fieldUpdate(ts, id, rest) : TRUE
         IN  IF ~isTaskOwner(ts, id, userId)
             THEN {Throw(FORBIDDEN_ERROR, merged, nid)}
             ELSE IF truthy(labelIdList)
             THEN IF setLabels(labelIdList) = {}
                  THEN {Throw(NoStatus, merged, nid)}
                  ELSE {Return(TRUE, 0, {}, [merged EXCEPT ![id].labels = ids], nid)
                           : ids \in setLabels(labelIdList)}
             ELSE {Return(TRUE, 0, {}, merged, nid)}

\* The callback of update's sequelize.transaction.  Only findByPk and setLabels
\* are given t; the rollback of the catch block undoes what ran in t.  The
\* task.save() at the end finds no changed field and writes nothing.
updateTransaction(ts, nid, id, userId, rest, labelIdList) ==
    IF findByPk(ts, id) = {}
    THEN {Throw(NOT_FOUND_ERROR, ts, nid)}
    ELSE IF ~isTaskOwner(ts, id, userId)
    THEN {Throw(FORBIDDEN_ERROR, ts, nid)}
    ELSE IF fieldUpdate(ts, id, rest) = {}
    THEN {Throw(NoStatus, ts, nid)}
    ELSE LET merged == CHOOSE m \in fieldUpdate(ts, id, rest) : TRUE
         IN  IF truthy(labelIdList)
             THEN IF setLabels(labelIdList) = {}
                  THEN {Throw(NoStatus, merged, nid)}
                  ELSE {Return(TRUE, 0, {}, [merged EXCEPT ![id].labels = ids], nid)
                           : ids \in setLabels(labelIdList)}
             ELSE {Return(TRUE, 0, {}, merged, nid)}

\* update(taskData)
update(ts, nid, id, userId, rest, labelIdList) ==
    updateTransaction(ts, nid, id, userId, rest, labelIdList)

\* destroy with the where clause on the section of the task instead of its id.
destroy_wholeSection(ts, id) ==
    [i \in {j \in DOMAIN ts : id \notin DOMAIN ts \/ ts[j].sectionId # ts[id].sectionId}
        |-> ts[i]]

\* taskModel.destroy({ where: { id } }): the rows that are left.
destroy(ts, id) == [i \in DOMAIN ts \ {id} |-> ts[i]]

\* remove(id): what destroy resolves with, the number of rows it deleted.
remove(ts, nid, id) ==
    LET left == destroy(ts, id)
    IN  {Return(FALSE, Cardinality(DOMAIN ts) - Cardinality(DOMAIN left), {}, left, nid)}

\* ------------------------------------------------------------ the requests

\* A position a caller may put in the fields it sends, or none.
Positions == {{}, {-1}}
CreateRests == {[position |-> p] : p \in Positions}
UpdateRests ==
    {[position |-> p, sectionId |-> s] :
        p \in Positions, s \in {{}} \cup {{i} : i \in SectionIds}}
LabelIdLists == {{}} \cup {{l} : l \in LabelTexts}

\* What is kept of a call: the operation, the task key it was given (create: the
\* key its insert used, 0 when it did not insert) and how it ended.
Called(op, id, o) ==
    [op |-> op, id |-> id, threw |-> o.threw, status |-> o.status,
     ret |-> o.ret, count |-> o.count]

Finish(o) ==
    /\ tasks' = o.tasks
    /\ nextId' = o.nextId
    /\ UNCHANGED <<pending, client>>

RetrieveById ==
    \E id \in TaskIds, userId \in Users :
        \E o \in retrieveById(tasks, nextId, id, userId) :
            /\ result' = Called("retrieveById", id, o)
            /\ Finish(o)

Create ==
    /\ nextId <= MaxTasks
    /\ \E projectId \in ProjectIds, sectionId \in SectionIds, userId \in Users,
          rest \in CreateRests, labelIdList \in LabelIdLists :
        \E o \in create(tasks, nextId, projectId, sectionId, userId, rest, labelIdList) :
            /\ result' = Called("create", IF o.nextId = nextId THEN 0 ELSE nextId, o)
            /\ Finish(o)

Update ==
    \E id \in TaskIds, userId \in Users, rest \in UpdateRests,
       labelIdList \in LabelIdLists :
        \E o \in update(tasks, nextId, id, userId, rest, labelIdList) :
            /\ result' = Called("update", id, o)
            /\ Finish(o)

Remove ==
    \E id \in TaskIds :
        \E o \in remove(tasks, nextId, id) :
            /\ result' = Called("remove", id, o)
            /\ Finish(o)

\* create as the event loop runs it beside other requests.  Each await gives
\* way to them; the one that matters lies between the read of the section with
\* its tasks and the insert.  CreateBegin runs a call up to there: it ends the
\* call when a check throws, and otherwise keeps the maxPosition it computed.
\* These callers send no position of their own.
CreateBegin ==
    \E r \in Requests, projectId \in ProjectIds, sectionId \in SectionIds,
       userId \in Users, labelIdList \in LabelIdLists :
        LET thrown == IF projectChecks(projectId, userId) # {}
                      THEN projectChecks(projectId, userId)
                      ELSE sectionChecks(projectId, sectionId, userId)
        IN  /\ pending[r] = {}
            /\ IF thrown # {}
               THEN /\ \E st \in thrown :
                          result' = Called("create", 0, Throw(st, tasks, nextId))
                    /\ UNCHANGED pending
               ELSE /\ pending' = [pending EXCEPT ![r] =
                                      {[projectId |-> projectId, sectionId |-> sectionId,
                                        rest |-> [position |-> {}],
                                        labelIdList |-> labelIdList,
                                        maxPosition |-> maxPosition(tasks, sectionId)]}]
                    /\ UNCHANGED result
            /\ UNCHANGED <<tasks, nextId, client>>

\* The rest of a call that CreateBegin left in flight: the insert with the
\* position computed from what the call read, and the label association.
CreateEnd ==
    /\ nextId <= MaxTasks
    /\ \E r \in Requests :
        \E q \in pending[r] :
            \E o \in createInsert(tasks, nextId, q.maxPosition, q.projectId,
                                  q.sectionId, q.rest, q.labelIdList) :
                /\ result' = Called("create", nextId, o)
                /\ tasks' = o.tasks
                /\ nextId' = o.nextId
                /\ pending' = [pending EXCEPT ![r] = {}]
                /\ UNCHANGED client

InitServer ==
    /\ tasks = << >>
    /\ nextId = 1
    /\ pending = [r \in Requests |-> {}]
    /\ result = Called("none", 0, Return(FALSE, 0, {}, << >>, 1))

\* ------------------------------------------------- the client's user store

\* const state = { user: { id: "", name: "", email: "" } }
state0 == [id |-> "", name |-> "", email |-> ""]

\* What userAPI.authorize() resolves with as data: a user, with more fields
\* than the store keeps.
AuthUsers ==
    {[id |-> "1", name |-> "whale", email |-> "whale@do", provider |-> "naver"],
     [id |-> "2", name |-> "dolphin", email |-> "dolphin@do", provider |-> "apple"],
     [id |-> "3", name |-> "orca", email |-> "orca@do", provider |-> "naver"]}

\* The paths of the router.
Paths == {"/", "/login", "/today", "/inbox", "/project/1", "/project/2", "/label/1", "/search"}

\* No store action is running.
Idle == [op |-> "none", step |-> "idle", authorized |-> FALSE, alerted |-> FALSE, data |-> {}]

\* mutations.SET_USER(state, user)
SET_USER(st, u) == [id |-> u.id, name |-> u.name, email |-> u.email]

\* router.replace(path).catch(() => {}): the location after it.  A replace to
\* the current location is rejected and the rejection swallowed.
replace(path, to) == IF to = path THEN path ELSE to

\* successTarget that always goes to /today.
successTarget_alwaysToday(path) == "/today"

\* checkUser after the commit: the path it hands to router.replace.
successTarget(path) ==
    IF path = "/" \/ path = "/login" THEN "/today" ELSE path

\* checkUserCatch that alerts and does not navigate.
checkUserCatch_noRedirect(st, path) == [user |-> st, pathname |-> path]

\* checkUser's catch block: the alert, then router.replace("/login").  No
\* mutation is committed.
checkUserCatch(st, path) == [user |-> st, pathname |-> replace(path, "/login")]

\* checkUser is dispatched and waits for userAPI.authorize().
CheckUserDispatch ==
    /\ cres.step \notin {"authorize", "committed"}
    /\ cres' = [Idle EXCEPT !.op = "checkUser", !.step = "authorize"]
    /\ UNCHANGED <<user, pathname, token, server>>

\* authorize rejects: control passes from the await to the catch block.
AuthorizeRejects ==
    /\ cres.step = "authorize"
    /\ LET o == checkUserCatch(user, pathname)
       IN  /\ user' = o.user
           /\ pathname' = o.pathname
    /\ cres' = [cres EXCEPT !.step = "done", !.alerted = TRUE]
    /\ UNCHANGED <<token, server>>

\* authorize resolves with { data: user }: commit("SET_USER", user).
AuthorizeResolves ==
    /\ cres.step = "authorize"
    /\ \E u \in AuthUsers :
        /\ user' = SET_USER(user, u)
        /\ cres' = [cres EXCEPT !.step = "committed", !.authorized = TRUE, !.data = {u}]
    /\ UNCHANGED <<pathname, token, server>>

\* The statement after the commit, in the same run of the event loop: the
\* router.replace of the success branch.
CheckUserNavigate ==
    /\ cres.step = "committed"
    /\ pathname' = replace(pathname, successTarget(pathname))
    /\ cres' = [cres EXCEPT !.step = "done"]
    /\ UNCHANGED <<user, token, server>>

\* actions.logout -> mutations.LOGOUT: the token is removed and
\* location.replace("/login") loads the document anew, with a new store.
Logout ==
    /\ cres.step # "committed"
    /\ token' = FALSE
    /\ pathname' = "/login"
    /\ user' = state0
    /\ cres' = [Idle EXCEPT !.op = "logout"]
    /\ UNCHANGED server

\* The browser goes to another path of the application (a link, the router of
\* another component), also while checkUser waits; checkUser reads the path as
\* location.pathname when it goes on.
Navigate ==
    /\ cres.step # "committed"
    /\ \E p \in Paths : pathname' = p
    /\ UNCHANGED <<user, token, cres, server>>

\* The document loads at any path, with or without a token kept from an
\* earlier login, and the store is constructed.
InitClient ==
    /\ user = state0
    /\ pathname \in Paths
    /\ token \in BOOLEAN
    /\ cres = Idle

\* ---------------------------------------------------------- specifications

\* The service starts on an empty task table; no client is loaded.
Init ==
    /\ InitServer
    /\ InitClient
    /\ pathname = "/"
    /\ ~token

InitStore == InitServer /\ InitClient

\* The task service, called in any order with any arguments.
Next == RetrieveById \/ Create \/ Update \/ Remove

Spec == Init /\ [][Next]_vars

\* create calls that overlap, and remove.
NextConcurrent == CreateBegin \/ CreateEnd \/ Remove

SpecConcurrent == Init /\ [][NextConcurrent]_vars

\* The user store of the client.
NextClient ==
    \/ CheckUserDispatch
    \/ AuthorizeRejects
    \/ AuthorizeResolves
    \/ CheckUserNavigate
    \/ Logout
    \/ Navigate

SpecClient == InitStore /\ [][NextClient]_vars

\* ------------------------------------------------------------------ claims

\* The largest of a non-empty set of integers.
Max(S) == CHOOSE m \in S : \A x \in S : x <= m

\* The section row exists and belongs to another project than the one supplied.
Mismatched(projectId, sectionId) ==
    /\ sectionId \in DOMAIN sections
    /\ sections[sectionId].projectId # projectId

\* userId is the creator of the project with that key.
Creator(projectId, userId) ==
    /\ projectId \in DOMAIN projects
    /\ projects[projectId].creatorId = userId

\* C1: for every stored task and every user who is not the creator of the
\* task's project, retrieveById and update (whatever fields and label list
\* it is given) throw an error with status 403 and leave the task table, the
\* label sets included, as it was.
C1_NonOwnerForbidden ==
    \A id \in DOMAIN tasks, userId \in Users :
        ~Creator(tasks[id].projectId, userId) =>
            /\ \A o \in retrieveById(tasks, nextId, id, userId) :
                    o.threw /\ o.status = FORBIDDEN_ERROR /\ o.tasks = tasks
            /\ \A rest \in UpdateRests, labelIdList \in LabelIdLists :
                    \A o \in update(tasks, nextId, id, userId, rest, labelIdList) :
                        o.threw /\ o.status = FORBIDDEN_ERROR /\ o.tasks = tasks

\* An update of a stored task has just ended with status 403.
C1_Witness ==
    /\ result.op = "update"
    /\ result.threw
    /\ result.status = FORBIDDEN_ERROR
    /\ result.id \in DOMAIN tasks

\* C2: whenever a call of update throws (the task is missing, the caller is
\* not the owner, or the label association step throws after the field
\* merge), the task table with its label sets is after the call what it was
\* before it.
C2_UpdateNoPartialWrite ==
    [][(result'.op = "update" /\ result'.threw) => tasks' = tasks]_vars

\* C3 as stated: create with an existing section of another project than the
\* supplied one throws the error with status 400 and inserts nothing, whoever
\* owns the project or the section.
C3_AlwaysBadRequest ==
    \A projectId \in ProjectIds, sectionId \in SectionIds, userId \in Users,
       rest \in CreateRests, labelIdList \in LabelIdLists :
        Mismatched(projectId, sectionId) =>
            \A o \in create(tasks, nextId, projectId, sectionId, userId, rest, labelIdList) :
                o.threw /\ o.status = BAD_REQUEST_ERROR /\ o.tasks = tasks

\* C3 amended: create with an existing section of another project than the
\* supplied one always throws and inserts nothing; the error has status 400
\* exactly when the caller is the creator of both the supplied project and
\* the project of the section.
C3_BadRequestForOwner ==
    \A projectId \in ProjectIds, sectionId \in SectionIds, userId \in Users,
       rest \in CreateRests, labelIdList \in LabelIdLists :
        Mismatched(projectId, sectionId) =>
            \A o \in create(tasks, nextId, projectId, sectionId, userId, rest, labelIdList) :
                /\ o.threw
                /\ o.tasks = tasks
                /\ o.status = BAD_REQUEST_ERROR <=>
                        /\ Creator(projectId, userId)
                        /\ Creator(sections[sectionId].projectId, userId)

\* A create has just ended with the wrong-relation error.
C3_Witness ==
    /\ result.op = "create"
    /\ result.threw
    /\ result.status = BAD_REQUEST_ERROR

\* C4: the row a successful create inserts has position 1 + the largest
\* position among the rows that were in its section before the call, and
\* position 1 when the section had no row.
C4_NextPosition ==
    [][(result'.op = "create" /\ ~result'.threw) =>
          LET row == tasks'[result'.id]
              before == siblingPositions(tasks, row.sectionId)
          IN  row.position = IF before = {} THEN 1 ELSE 1 + Max(before)]_vars

\* C5: in every reachable state every stored task has a section row whose
\* projectId is the task's projectId.
C5_TaskInSectionOfItsProject ==
    \A id \in DOMAIN tasks :
        /\ tasks[id].sectionId \in DOMAIN sections
        /\ sections[tasks[id].sectionId].projectId = tasks[id].projectId

\* C6: create validates in order before it inserts: status 404 when the project
\* does not exist, 403 when it exists and the caller is not its creator, 404
\* when the project checks pass and the section does not exist; and every
\* create that throws, the one whose label association fails after the insert
\* included, leaves the task table with its label sets as it was.
C6_CreateValidates ==
    \A projectId \in ProjectIds, sectionId \in SectionIds, userId \in Users,
       rest \in CreateRests, labelIdList \in LabelIdLists :
        \A o \in create(tasks, nextId, projectId, sectionId, userId, rest, labelIdList) :
            /\ projectId \notin DOMAIN projects =>
                    o.threw /\ o.status = NOT_FOUND_ERROR
            /\ (projectId \in DOMAIN projects /\ ~Creator(projectId, userId)) =>
                    o.threw /\ o.status = FORBIDDEN_ERROR
            /\ (Creator(projectId, userId) /\ sectionId \notin DOMAIN sections) =>
                    o.threw /\ o.status = NOT_FOUND_ERROR
            /\ o.threw => o.tasks = tasks

\* A create has just thrown after its insert used a key, and no row has that
\* key: the label association failed and the insert was rolled back.
C6_Witness ==
    /\ result.op = "create"
    /\ result.threw
    /\ result.id # 0
    /\ result.id \notin DOMAIN tasks

\* C7: remove(id) throws nothing; when a row has the id it returns 1 and
\* deletes that row alone, every other row staying as it was; when no row has
\* the id it returns 0 and changes nothing.  It is given no user: nothing about
\* the owner of the task is checked.
C7_RemoveExactlyOne ==
    [][result'.op = "remove" =>
          /\ ~result'.threw
          /\ IF result'.id \in DOMAIN tasks
             THEN /\ result'.count = 1
                  /\ DOMAIN tasks' = DOMAIN tasks \ {result'.id}
                  /\ \A i \in DOMAIN tasks' : tasks'[i] = tasks[i]
             ELSE /\ result'.count = 0
                  /\ tasks' = tasks]_vars

\* A remove has just deleted one row and another row is still stored.
C7_Witness ==
    /\ result.op = "remove"
    /\ result.count = 1
    /\ result.id \notin DOMAIN tasks
    /\ DOMAIN tasks # {}

\* C10: however create calls on one section overlap, the rows they insert get
\* distinct positions: in every reachable state no two tasks of a section have
\* the same position.
C10_DistinctPositions ==
    \A i \in DOMAIN tasks, j \in DOMAIN tasks :
        (i # j /\ tasks[i].sectionId = tasks[j].sectionId) =>
            tasks[i].position # tasks[j].position

\* C8: whenever the authorize call of checkUser fails, the action ends on path
\* /login without having committed SET_USER: the user state of the store is
\* what it was before, and only an authorize that succeeded leads to a commit.
C8_FailedCheckGoesToLogin ==
    [][/\ (cres.step = "authorize" /\ cres'.step = "done" /\ ~cres'.authorized) =>
             pathname' = "/login" /\ user' = user
       /\ (cres.step = "authorize" /\ cres'.step = "committed") => cres'.authorized]_vars

\* A checkUser whose authorize failed has just ended, in a store that held a
\* user committed by an earlier checkUser.
C8_Witness ==
    /\ cres.op = "checkUser"
    /\ cres.step = "done"
    /\ ~cres.authorized
    /\ cres.alerted
    /\ pathname = "/login"
    /\ user # state0

\* C9: whenever the authorize call of checkUser succeeds, the user state is set
\* to exactly the id, name and email of the returned user while the path is
\* still the one before; the navigation that follows leaves the user state
\* alone and goes to /today from / and from /login and to the current path
\* from any other path, never to /login.
C9_CommitThenNavigate ==
    [][/\ (cres.step = "authorize" /\ cres'.authorized) =>
             /\ cres'.step = "committed"
             /\ pathname' = pathname
             /\ \E u \in cres'.data :
                    user' = [id |-> u.id, name |-> u.name, email |-> u.email]
       /\ cres.step = "committed" =>
             /\ cres'.step = "done"
             /\ cres'.authorized
             /\ user' = user
             /\ pathname' = IF pathname \in {"/", "/login"} THEN "/today" ELSE pathname
             /\ pathname' # "/login"]_vars

\* A checkUser that succeeded has just ended on the path it started from, which
\* is neither / nor /login, with the returned user in the store.
C9_Witness ==
    /\ cres.op = "checkUser"
    /\ cres.step = "done"
    /\ cres.authorized
    /\ pathname = "/project/1"
    /\ \E u \in cres.data : user = [id |-> u.id, name |-> u.name, email |-> u.email]

====
